---- MODULE Spec2Model ----
(***************************************************************************)
(* Model of rustbreak's error layer (src/error.rs): the RustbreakErrorKind *)
(* tag, the RustbreakError wrapper around failure::Context, its accessors, *)
(* its two From conversions, and the Box<dyn Any> round trip of the tests. *)
(*                                                                         *)
(* failure::Context, failure::Error and failure::Backtrace live in the     *)
(* `failure` crate, outside src/.  They are modelled after section 4.2 of  *)
(* the specification: a Context holds one kind plus either a trace taken   *)
(* at construction (no cause) or the wrapped lower-level failure (cause),  *)
(* whose trace it then reports.                                            *)
(***************************************************************************)
EXTENDS Naturals, FiniteSets, Sequences, TLC

VARIABLES
    k1,      \* a RustbreakErrorKind value built by naming a variant
    k2,      \* a second, independently built RustbreakErrorKind value
    kcopy,   \* a copy of k1 (Copy/Clone); the value the conversions consume
    ctx,     \* a Context<RustbreakErrorKind> not yet converted
    err,     \* the RustbreakError, while it is held by value
    boxed,   \* a Box<dyn Any>
    srcCtx,  \* history: the Context that From<Context> consumed
    built,   \* history: what the error was constructed with
    seen,    \* history: operations applied to the error since construction
    out      \* the result of the last observing operation

vars == <<k1, k2, kcopy, ctx, err, boxed, srcCtx, built, seen, out>>

-----------------------------------------------------------------------------
(* Bounds and input sets *)

MaxTrace == 2

\* messages of the simulated lower-level failures (codec, backend)
Msgs == {"invalid byte sequence", "disk full"}

-----------------------------------------------------------------------------
(* Option<T> *)

None == [some |-> FALSE]

Some(x) == [some |-> TRUE, val |-> x]

-----------------------------------------------------------------------------
(* RustbreakErrorKind *)

Kinds == {"Serialization", "Deserialization", "Poison", "Backend", "WritePanic"}

RustbreakErrorKind_clone_first(k) == "Serialization"

\* #[derive(Copy, Clone)]: a bitwise copy of the tag
RustbreakErrorKind_clone(k) == k

\* #[derive(Eq, PartialEq)]: equal iff the same variant
RustbreakErrorKind_eq(a, b) == a = b

\* #[derive(Fail)] with #[fail(display = "...")]: Display of a kind
RustbreakErrorKind_fmt(k) ==
    CASE k = "Serialization"   -> "Could not serialize the value"
      [] k = "Deserialization" -> "Could not deserialize the value"
      [] k = "Poison"          -> "The database has been poisoned"
      [] k = "Backend"         -> "The backend has encountered an error"
      [] k = "WritePanic"      -> "The write operation paniced but got caught"

-----------------------------------------------------------------------------
(* failure::Backtrace, failure::Error, failure::Context *)

\* Backtrace::none(), and what Backtrace::new() yields when capture is off
Backtrace_none == [captured |-> FALSE, id |-> 0]

\* the values Backtrace::new() can yield: nothing, or one of the traces
Backtraces == {Backtrace_none} \cup {[captured |-> TRUE, id |-> i] : i \in 1..MaxTrace}

\* a lower-level failure: its Display message and its own trace, if it has one
Failures == [msg : Msgs, backtrace : {None} \cup {Some(b) : b \in Backtraces \ {Backtrace_none}}]

\* failure::Error::from(f): takes a trace (bt) only when f brings none
Error_from(f, bt) ==
    [failure |-> f, backtrace |-> IF f.backtrace.some THEN Backtrace_none ELSE bt]

\* failure::Error::backtrace
Error_backtrace(e) ==
    IF e.failure.backtrace.some THEN e.failure.backtrace.val ELSE e.backtrace

\* failure::Error::as_fail
Error_as_fail(e) == e.failure

\* Context::new(kind): no cause, the trace bt taken now
Context_new(k, bt) == [context |-> k, failure |-> [either |-> "This", backtrace |-> bt]]

\* Fail::context / Context::with_err: retains the failure as cause
Context_with_err(k, e) == [context |-> k, failure |-> [either |-> "That", error |-> e]]

\* Context::get_context
Context_get_context(c) == c.context

\* <Context as Fail>::cause
Context_cause(c) ==
    IF c.failure.either = "That" THEN Some(Error_as_fail(c.failure.error)) ELSE None

\* <Context as Fail>::backtrace
Context_backtrace(c) ==
    IF c.failure.either = "That"
    THEN Some(Error_backtrace(c.failure.error))
    ELSE Some(c.failure.backtrace)

\* <Context as Display>::fmt: the Display of the kind it holds
Context_fmt(c) == RustbreakErrorKind_fmt(c.context)

-----------------------------------------------------------------------------
(* RustbreakError *)

RustbreakError_cause_default(e) == None

RustbreakError_cause_self(e) == Some([msg |-> Context_fmt(e.inner), backtrace |-> None])

\* impl Fail for RustbreakError: cause
RustbreakError_cause(e) == Context_cause(e.inner)

RustbreakError_backtrace_unwrap(e) ==
    LET t == Context_backtrace(e.inner)
    IN  IF t.some /\ t.val.captured THEN t ELSE [abort |-> TRUE]

\* impl Fail for RustbreakError: backtrace
RustbreakError_backtrace(e) == Context_backtrace(e.inner)

RustbreakError_fmt_chain(e) ==
    LET c == Context_cause(e.inner)
    IN  IF c.some THEN Context_fmt(e.inner) \o ": " \o c.val.msg ELSE Context_fmt(e.inner)

\* impl Display for RustbreakError
RustbreakError_fmt(e) == Context_fmt(e.inner)

RustbreakError_kind_fixed(e) == "Backend"

\* RustbreakError::kind
RustbreakError_kind(e) == Context_get_context(e.inner)

\* impl From<RustbreakErrorKind> for RustbreakError
From_kind(k, bt) == [inner |-> Context_new(k, bt)]

From_context_rebuilt(c) == [inner |-> Context_new(Context_get_context(c), Backtrace_none)]

\* impl From<Context<RustbreakErrorKind>> for RustbreakError
From_context(c) == [inner |-> c]

-----------------------------------------------------------------------------
(* Box<dyn Any> *)

TypeIds == {"RustbreakError", "RustbreakErrorKind"}

Box_new_of_kind(v, ty) ==
    IF ty = "RustbreakError"
    THEN [type_id |-> "RustbreakErrorKind", value |-> RustbreakError_kind(v)]
    ELSE [type_id |-> ty, value |-> v]

\* Box::new(v) as Box<dyn Any>: the value with the TypeId of its concrete type
Box_new(v, ty) == [type_id |-> ty, value |-> v]

\* <dyn Any>::is::<T>
Any_is(b, ty) == b.type_id = ty

\* Box<dyn Any>::downcast::<T>
Any_downcast(b, ty) == IF Any_is(b, ty) THEN Some(b.value) ELSE None

-----------------------------------------------------------------------------
(* State *)

NoBuilt == [via |-> "none"]

NoOut == [op |-> "none"]

Init ==
    /\ k1 = None
    /\ k2 = None
    /\ kcopy = None
    /\ ctx = None
    /\ err = None
    /\ boxed = None
    /\ srcCtx = None
    /\ built = NoBuilt
    /\ seen = {}
    /\ out = NoOut

\* nothing has been constructed from the kind yet
Fresh == ctx = None /\ err = None /\ boxed = None /\ built = NoBuilt

\* let a = RustbreakErrorKind::<variant>
MakeKind(k) ==
    /\ k1 = None
    /\ k1' = Some(k)
    /\ UNCHANGED <<k2, kcopy, ctx, err, boxed, srcCtx, built, seen, out>>

\* let b = RustbreakErrorKind::<variant>, independently of a
MakeOther(k) ==
    /\ k2 = None
    /\ k2' = Some(k)
    /\ UNCHANGED <<k1, kcopy, ctx, err, boxed, srcCtx, built, seen, out>>

\* let c = a  (Copy)
CopyKind ==
    /\ k1.some
    /\ kcopy = None
    /\ kcopy' = Some(RustbreakErrorKind_clone(k1.val))
    /\ UNCHANGED <<k1, k2, ctx, err, boxed, srcCtx, built, seen, out>>

\* RustbreakError::from(c); the trace bt is what Backtrace::new() captures
ErrFromKind(bt) ==
    /\ kcopy.some
    /\ Fresh
    /\ err' = Some(From_kind(kcopy.val, bt))
    /\ built' = [via |-> "kind", kind |-> kcopy.val, cause |-> None, trace |-> bt]
    /\ seen' = {}
    /\ UNCHANGED <<k1, k2, kcopy, ctx, boxed, srcCtx, out>>

\* Context::new(c)
NewContext(bt) ==
    /\ kcopy.some
    /\ Fresh
    /\ ctx' = Some(Context_new(kcopy.val, bt))
    /\ built' = [via |-> "context", kind |-> kcopy.val, cause |-> None, trace |-> bt]
    /\ UNCHANGED <<k1, k2, kcopy, err, boxed, srcCtx, seen, out>>

\* f.context(c): the lower-level failure f wrapped under the kind
WrapFailure(f, bt) ==
    /\ kcopy.some
    /\ Fresh
    /\ ctx' = Some(Context_with_err(kcopy.val, Error_from(f, bt)))
    /\ built' = [via |-> "wrap", kind |-> kcopy.val, cause |-> Some(f),
                 trace |-> IF f.backtrace.some THEN f.backtrace.val ELSE bt]
    /\ UNCHANGED <<k1, k2, kcopy, err, boxed, srcCtx, seen, out>>

\* let err: RustbreakError = context.into()
ErrFromContext ==
    /\ ctx.some
    /\ err' = Some(From_context(ctx.val))
    /\ srcCtx' = ctx
    /\ ctx' = None
    /\ seen' = {}
    /\ UNCHANGED <<k1, k2, kcopy, boxed, built, out>>

Observe(op, val) ==
    /\ err.some
    /\ out' = [op |-> op, val |-> val]
    /\ seen' = seen \cup {op}
    /\ UNCHANGED <<k1, k2, kcopy, ctx, err, boxed, srcCtx, built>>

KindOp_take ==
    /\ err.some
    /\ out' = [op |-> "kind", val |-> RustbreakError_kind(err.val)]
    /\ seen' = seen \cup {"kind"}
    /\ err' = Some(From_kind("Backend", Backtrace_none))
    /\ UNCHANGED <<k1, k2, kcopy, ctx, boxed, srcCtx, built>>

\* err.kind()
KindOp == err.some /\ Observe("kind", RustbreakError_kind(err.val))

\* err.cause()
CauseOp == err.some /\ Observe("cause", RustbreakError_cause(err.val))

\* err.backtrace()
BacktraceOp == err.some /\ Observe("backtrace", RustbreakError_backtrace(err.val))

\* format!("{}", err)
DisplayOp == err.some /\ Observe("display", RustbreakError_fmt(err.val))

\* let boxed: Box<dyn Any> = Box::new(err)
BoxErr ==
    /\ err.some
    /\ boxed = None
    /\ boxed' = Some(Box_new(err.val, "RustbreakError"))
    /\ err' = None
    /\ seen' = seen \cup {"box"}
    /\ UNCHANGED <<k1, k2, kcopy, ctx, srcCtx, built, out>>

\* let boxed: Box<dyn Any> = Box::new(kind)
BoxKind ==
    /\ kcopy.some
    /\ Fresh
    /\ boxed' = Some(Box_new(kcopy.val, "RustbreakErrorKind"))
    /\ UNCHANGED <<k1, k2, kcopy, ctx, err, srcCtx, built, seen, out>>

\* boxed.is::<T>()
IsOp(ty) ==
    /\ boxed.some
    /\ out' = [op |-> "is", ty |-> ty, val |-> Any_is(boxed.val, ty)]
    /\ UNCHANGED <<k1, k2, kcopy, ctx, err, boxed, srcCtx, built, seen>>

\* boxed.downcast::<RustbreakError>()
DowncastErr ==
    /\ boxed.some
    /\ LET r == Any_downcast(boxed.val, "RustbreakError")
       IN  IF r.some
           THEN /\ err' = Some(r.val)
                /\ boxed' = None
                /\ seen' = seen \cup {"downcast"}
                /\ out' = [op |-> "downcast", val |-> "Ok"]
           ELSE /\ out' = [op |-> "downcast", val |-> "Err"]
                /\ UNCHANGED <<err, boxed, seen>>
    /\ UNCHANGED <<k1, k2, kcopy, ctx, srcCtx, built>>

\* every value goes out of scope
Drop ==
    /\ k1.some
    /\ k1' = None
    /\ k2' = None
    /\ kcopy' = None
    /\ ctx' = None
    /\ err' = None
    /\ boxed' = None
    /\ srcCtx' = None
    /\ built' = NoBuilt
    /\ seen' = {}
    /\ out' = NoOut

Next ==
    \/ \E k \in Kinds : MakeKind(k)
    \/ \E k \in Kinds : MakeOther(k)
    \/ CopyKind
    \/ \E bt \in Backtraces : ErrFromKind(bt)
    \/ \E bt \in Backtraces : NewContext(bt)
    \/ \E f \in Failures, bt \in Backtraces : WrapFailure(f, bt)
    \/ ErrFromContext
    \/ KindOp
    \/ CauseOp
    \/ BacktraceOp
    \/ DisplayOp
    \/ BoxErr
    \/ BoxKind
    \/ \E ty \in TypeIds : IsOp(ty)
    \/ DowncastErr
    \/ Drop

Spec == Init /\ [][Next]_vars

-----------------------------------------------------------------------------
(* Properties *)

\* the error, wherever it currently lives: held by value, or inside the box
Live ==
    IF err.some THEN err
    ELSE IF boxed.some THEN Any_downcast(boxed.val, "RustbreakError")
    ELSE None

\* the operations that act on an existing error
ErrorOps == {"kind", "cause", "backtrace", "display", "box", "downcast"}

\* the message table of the specification, section 4.1
SpecMessage(k) ==
    CASE k = "Serialization"   -> "Could not serialize the value"
      [] k = "Deserialization" -> "Could not deserialize the value"
      [] k = "Poison"          -> "The database has been poisoned"
      [] k = "Backend"         -> "The backend has encountered an error"
      [] k = "WritePanic"      -> "The write operation panicked but got caught"

\* C1: for every kind k, RustbreakError::from(k).kind() returns exactly k,
\* both as the accessor applies to the error and as a call of kind() reported it.
C1_FromKindKeepsKind ==
    (err.some /\ built.via = "kind") =>
        /\ RustbreakError_kind(err.val) = built.kind
        /\ (out.op = "kind" => out.val = built.kind)

C1_Witness ==
    /\ err.some
    /\ built.via = "kind"
    /\ built.kind = "WritePanic"
    /\ out.op = "kind"
    /\ out.val = "WritePanic"

\* C2: for every kind k, the Display text of RustbreakError::from(k) is the
\* message the specification's table gives for k.
C2_DisplayIsSpecMessage ==
    (err.some /\ built.via = "kind") =>
        RustbreakError_fmt(err.val) = SpecMessage(built.kind)

\* C3: an error built directly from a bare kind has no cause: cause() is None.
C3_FromKindHasNoCause ==
    (err.some /\ built.via = "kind") =>
        /\ RustbreakError_cause(err.val) = None
        /\ (out.op = "cause" => out.val = None)

C3_Witness ==
    /\ err.some
    /\ built.via = "kind"
    /\ built.kind = "Backend"
    /\ out.op = "cause"
    /\ out.val = None

\* C4: wrapping a lower-level failure f under kind k and converting the Context
\* gives an error whose cause() is present and is f (with f's message) and whose
\* kind() is still k.
C4_WrapKeepsCauseAndKind ==
    (err.some /\ built.via = "wrap") =>
        /\ RustbreakError_cause(err.val).some
        /\ RustbreakError_cause(err.val) = built.cause
        /\ RustbreakError_cause(err.val).val.msg = built.cause.val.msg
        /\ RustbreakError_kind(err.val) = built.kind

C4_Witness ==
    /\ err.some
    /\ built.via = "wrap"
    /\ built.kind = "Deserialization"
    /\ out.op = "cause"
    /\ out.val.some
    /\ out.val.val.msg = "invalid byte sequence"

\* C5: a RustbreakError stored as Box<dyn Any> is recognised as a RustbreakError,
\* downcasts back to it, and kind() of the recovered error is the kind it was
\* constructed with.
C5_BoxDowncastRoundTrip ==
    /\ (boxed.some /\ built # NoBuilt) =>
           /\ Any_is(boxed.val, "RustbreakError")
           /\ Any_downcast(boxed.val, "RustbreakError").some
           /\ RustbreakError_kind(Any_downcast(boxed.val, "RustbreakError").val) = built.kind
    /\ (out.op = "downcast" /\ built # NoBuilt) => out.val = "Ok"
    /\ ("box" \in seen /\ boxed = None) =>
           /\ "downcast" \in seen
           /\ err.some
           /\ RustbreakError_kind(err.val) = built.kind

C5_Witness ==
    /\ "box" \in seen
    /\ "downcast" \in seen
    /\ out.op = "downcast"
    /\ out.val = "Ok"
    /\ err.some
    /\ built.via = "kind"
    /\ RustbreakError_kind(err.val) = "Serialization"

AsConstructed(e) ==
    /\ RustbreakError_kind(e) = built.kind
    /\ RustbreakError_cause(e) = built.cause
    /\ RustbreakError_backtrace(e) = Some(built.trace)

\* C7: an error is never mutated after construction: through every sequence of
\* kind(), cause(), backtrace(), Display, box and downcast it reports the kind,
\* cause and trace it was constructed with, and no step changes an existing error.
C7_NeverMutated ==
    /\ [](Live.some => AsConstructed(Live.val))
    /\ [][(Live.some /\ Live'.some) => Live' = Live]_vars

C7_Witness ==
    /\ err.some
    /\ built.via = "wrap"
    /\ seen = ErrorOps
    /\ AsConstructed(err.val)

\* C8: converting a Context c into a RustbreakError preserves what c carries:
\* kind() is c's kind, cause() is c's cause (None when c has none) and
\* backtrace() is c's trace.
C8_FromContextPreserves ==
    (err.some /\ srcCtx.some) =>
        /\ RustbreakError_kind(err.val) = Context_get_context(srcCtx.val)
        /\ RustbreakError_cause(err.val) = Context_cause(srcCtx.val)
        /\ RustbreakError_backtrace(err.val) = Context_backtrace(srcCtx.val)

C8_Witness ==
    /\ err.some
    /\ srcCtx.some
    /\ Context_cause(srcCtx.val).some
    /\ Context_backtrace(srcCtx.val).val.captured
    /\ out.op = "backtrace"

\* C9: kinds are values: two independently built kinds are equal exactly when
\* they are the same variant, a copy equals its source, and converting the copy
\* (into a Context or an error) leaves source and copy in place and equal.
C9_KindValueSemantics ==
    /\ (k1.some /\ k2.some) =>
           (RustbreakErrorKind_eq(k1.val, k2.val) <=> k1.val = k2.val)
    /\ kcopy.some => (k1.some /\ RustbreakErrorKind_eq(kcopy.val, k1.val))
    /\ built # NoBuilt =>
           /\ kcopy.some
           /\ k1.some
           /\ RustbreakErrorKind_eq(k1.val, built.kind)
           /\ RustbreakErrorKind_eq(kcopy.val, k1.val)

C9_Witness ==
    /\ k1.some
    /\ k2.some
    /\ kcopy.some
    /\ k1.val = "Poison"
    /\ k2.val = "Poison"
    /\ err.some
    /\ built.via = "kind"
    /\ RustbreakErrorKind_eq(k1.val, k2.val)

\* the outcomes backtrace() may have: no trace, or a trace (which may be empty)
BacktraceOutcomes == {None} \cup {Some(b) : b \in Backtraces}

\* C10: backtrace() is total: for every error, whether or not a trace was
\* captured at construction, it yields the trace of construction or None and
\* never aborts.
C10_BacktraceTotal ==
    /\ err.some =>
           /\ RustbreakError_backtrace(err.val) \in BacktraceOutcomes
           /\ (RustbreakError_backtrace(err.val).some =>
                   RustbreakError_backtrace(err.val).val = built.trace)
    /\ out.op = "backtrace" =>
           /\ out.val \in BacktraceOutcomes
           /\ (out.val.some => out.val.val = built.trace)

C10_Witness ==
    /\ err.some
    /\ built.trace = Backtrace_none
    /\ out.op = "backtrace"
    /\ out.val \in BacktraceOutcomes
    /\ out.val.some
    /\ ~out.val.val.captured

====
